---------------------------- MODULE Spec2Model ----------------------------
(***************************************************************************)
(* Model of the gita-reels scripts:                                        *)
(*   scripts/pick_today_quote.py        pick the quote of the day (IST)    *)
(*   scripts/make_caption.py            build output/caption.txt           *)
(*   scripts/make_reel_github_linux.py  render output/reel.mp4 with music  *)
(*   scripts/make_reel copy.py          render output/reel.mp4, no audio   *)
(*                                                                         *)
(* Text is a sequence of one-character strings, a JSON value is a tagged   *)
(* record, a JSON object is a function from key names to JSON values, a    *)
(* directory is a function from the names of the files in it to their      *)
(* contents.  Every script run is one action.                              *)
(***************************************************************************)
EXTENDS Integers, Sequences, FiniteSets, TLC

VARIABLES
    \* the environment and run of scripts/pick_today_quote.py
    now_utc,        \* the instant of the run: [year, month, day, hour, minute] in UTC
    local_tz,       \* the machine's own UTC offset in minutes
    data,           \* data/: month file name -> list of records
    today_quote,    \* output/today_quote.json: NoFile or a JSON object
    pick_pc,        \* pick_today_quote.main: "start" | "done" | "raised"
    pick_exc,       \* the exception pick_today_quote.main raised, or "none"
    req_file,       \* the month file name load_month_file built
    today_str,      \* the string main matched the records against
    \* scripts/make_caption.py
    caption_file,   \* output/caption.txt: NoFile or the caption, a sequence of lines
    cap_pc,         \* make_caption.main: "start" | "done" | "raised"
    cap_exc,        \* [type, keys]: the exception make_caption.main raised
    ph_n,           \* the argument of a direct call pick_hashtags(n)
    ph_out,         \* its result: [exc, value]
    \* scripts/make_reel_github_linux.py and scripts/make_reel copy.py
    assets,         \* the font and background files present under fonts/ and assets/
    music_dir,      \* assets/music: NoDir or Dir(the names of the files in it)
    music_path,     \* what a call of pick_music_file gave: [exc, value]
    reel_file,      \* output/reel.mp4: NoFile or [complete, audio]
    reel_pc,        \* a reel script's main: "start" | "done" | "raised"
    reel_exc,       \* [type, key]: the exception the reel script raised
    reel_script,    \* which reel script ran: "none" | "github_linux" | "copy"
    \* rendering: the frame at time t and a call of wrap_lines
    t,              \* time of the frame being made, in ticks
    alpha,          \* the five alphas make_frame computed for it (numerators over AlphaOne)
    w_text,         \* wrap_lines: the text
    w_max,          \* wrap_lines: max_width
    w_lines         \* wrap_lines: [returned, value]

pick_vars == <<now_utc, local_tz, data, pick_pc, pick_exc, req_file, today_str>>
caption_vars == <<caption_file, cap_pc, cap_exc, ph_n, ph_out>>
reel_vars == <<assets, music_dir, music_path, reel_file, reel_pc, reel_exc, reel_script>>
frame_vars == <<t, alpha>>
wrap_vars == <<w_text, w_max, w_lines>>
vars == <<pick_vars, today_quote, caption_vars, reel_vars, frame_vars, wrap_vars>>

NoFile == [absent |-> TRUE]
NoDir == [exists |-> FALSE, files |-> {}]
Dir(files) == [exists |-> TRUE, files |-> files]
None == [t |-> "null"]
NoExc == [type |-> "none"]
Exc(type, key) == [type |-> type, key |-> key]
NoCall == [returned |-> FALSE]

-----------------------------------------------------------------------------
(* Python values and text *)

JStr(s) == [t |-> "str", s |-> s]
JNum(n) == [t |-> "num", n |-> n]

DigitChars == <<"0", "1", "2", "3", "4", "5", "6", "7", "8", "9">>
Digit(n) == DigitChars[n + 1]

RECURSIVE Dec(_)
\* format(n, "d") of a natural number
Dec(n) == IF n < 10 THEN <<Digit(n)>> ELSE Dec(n \div 10) \o <<Digit(n % 10)>>

\* format(n, "02d")
Pad2(n) == IF n < 10 THEN <<"0", Digit(n)>> ELSE Dec(n)

\* format(n, "04d"): the %Y of strftime
Pad4(n) == IF n < 10 THEN <<"0", "0", "0">> \o Dec(n)
           ELSE IF n < 100 THEN <<"0", "0">> \o Dec(n)
           ELSE IF n < 1000 THEN <<"0">> \o Dec(n)
           ELSE Dec(n)

Whitespace == {" ", "\t", "\n"}

RECURSIVE lstrip(_)
lstrip(s) == IF s # <<>> /\ Head(s) \in Whitespace THEN lstrip(Tail(s)) ELSE s

RECURSIVE rstrip(_)
rstrip(s) == IF s # <<>> /\ s[Len(s)] \in Whitespace
             THEN rstrip(SubSeq(s, 1, Len(s) - 1)) ELSE s

\* str.strip()
strip(s) == rstrip(lstrip(s))

\* str(v)
PyStr(v) == CASE v.t = "str" -> v.s
              [] v.t = "num" -> Dec(v.n)
              [] OTHER -> <<"N", "o", "n", "e">>

\* dict.get(key, default)
Get(q, key, default) == IF key \in DOMAIN q THEN q[key] ELSE default


-----------------------------------------------------------------------------
(* scripts/pick_today_quote.py *)

IsLeap(y) == (y % 4 = 0 /\ y % 100 # 0) \/ y % 400 = 0

DaysInMonth(y, m) == IF m = 2 THEN (IF IsLeap(y) THEN 29 ELSE 28)
                     ELSE IF m \in {4, 6, 9, 11} THEN 30 ELSE 31

\* the calendar day after / before [year, month, day]
NextDay(d) == IF d.day < DaysInMonth(d.year, d.month)
                  THEN [year |-> d.year, month |-> d.month, day |-> d.day + 1]
              ELSE IF d.month < 12
                  THEN [year |-> d.year, month |-> d.month + 1, day |-> 1]
              ELSE [year |-> d.year + 1, month |-> 1, day |-> 1]

PrevDay(d) == IF d.day > 1
                  THEN [year |-> d.year, month |-> d.month, day |-> d.day - 1]
              ELSE IF d.month > 1
                  THEN [year |-> d.year, month |-> d.month - 1,
                        day |-> DaysInMonth(d.year, d.month - 1)]
              ELSE [year |-> d.year - 1, month |-> 12, day |-> 31]

\* timezone(timedelta(hours=5, minutes=30)), as minutes east of UTC
IST == 5 * 60 + 30

\* datetime.now() without the zone: the machine's own clock
datetime_now_naive(tz) ==
    LET tot  == now_utc.hour * 60 + now_utc.minute + local_tz
        date == [year |-> now_utc.year, month |-> now_utc.month, day |-> now_utc.day]
        d    == IF tot < 0 THEN PrevDay(date) ELSE IF tot >= 1440 THEN NextDay(date) ELSE date
        m    == IF tot < 0 THEN tot + 1440 ELSE IF tot >= 1440 THEN tot - 1440 ELSE tot
    IN  [year |-> d.year, month |-> d.month, day |-> d.day,
         hour |-> m \div 60, minute |-> m % 60]

\* datetime.now(tz): the instant of the run on the clock of zone tz
\* (an offset of less than a day); the machine's zone plays no part.
datetime_now(tz) ==
    LET tot  == now_utc.hour * 60 + now_utc.minute + tz
        date == [year |-> now_utc.year, month |-> now_utc.month, day |-> now_utc.day]
        d    == IF tot < 0 THEN PrevDay(date) ELSE IF tot >= 1440 THEN NextDay(date) ELSE date
        m    == IF tot < 0 THEN tot + 1440 ELSE IF tot >= 1440 THEN tot - 1440 ELSE tot
    IN  [year |-> d.year, month |-> d.month, day |-> d.day,
         hour |-> m \div 60, minute |-> m % 60]

\* today.strftime("%Y-%m-%d")
strftime_ymd(d) == Pad4(d.year) \o <<"-">> \o Pad2(d.month) \o <<"-">> \o Pad2(d.day)

\* f"krishna_quotes_{year}_{month:02d}.json"
month_file_name(year, month) ==
    <<"krishna_quotes_">> \o Dec(year) \o <<"_">> \o Pad2(month) \o <<".json">>

\* a missing month file read as an empty month
load_month_file_lenient(year, month) ==
    LET filename == month_file_name(year, month)
    IN  [exc |-> "none",
         value |-> IF filename \in DOMAIN data THEN data[filename] ELSE <<>>]

\* load_month_file: the parsed list, or the exception raised
load_month_file(year, month) ==
    LET filename == month_file_name(year, month)
    IN  IF filename \notin DOMAIN data
        THEN [exc |-> "FileNotFoundError", value |-> <<>>]
        ELSE [exc |-> "none", value |-> data[filename]]

\* the match without .strip()
date_matches_unstripped(q, s) == PyStr(Get(q, "date", JStr(<<>>))) = s

\* str(q.get("date", "")).strip() == today_str
date_matches(q, s) == strip(PyStr(Get(q, "date", JStr(<<>>)))) = s

RECURSIVE first_match(_, _)
\* next((q for q in month_data if ...), None)
first_match(month_data, s) ==
    IF month_data = <<>> THEN None
    ELSE IF date_matches(Head(month_data), s) THEN Head(month_data)
    ELSE first_match(Tail(month_data), s)

\* bool(quote) of None or a dict
Truthy(q) == q # None /\ DOMAIN q # {}

\* main(), the whole run
pick_main ==
    /\ pick_pc = "start"
    /\ LET today  == datetime_now(IST)
           loaded == load_month_file(today.year, today.month)
           s      == strftime_ymd(today)
           quote  == first_match(loaded.value, s)
       IN  /\ req_file' = month_file_name(today.year, today.month)
           /\ IF loaded.exc # "none"
              THEN /\ pick_pc' = "raised"
                   /\ pick_exc' = loaded.exc
                   /\ UNCHANGED <<today_quote, today_str>>
              ELSE /\ today_str' = s
                   /\ IF ~Truthy(quote)
                      THEN /\ pick_pc' = "raised"
                           /\ pick_exc' = "Exception"
                           /\ UNCHANGED today_quote
                      ELSE /\ pick_pc' = "done"
                           /\ pick_exc' = "none"
                           /\ today_quote' = quote
    /\ UNCHANGED <<now_utc, local_tz, data>>
    /\ UNCHANGED <<caption_vars, reel_vars, frame_vars, wrap_vars>>


-----------------------------------------------------------------------------
(* scripts/make_caption.py *)

HASHTAGS_POOL ==
    << "#bhagavadgita", "#krishna", "#krishnavani", "#gita",
       "#spirituality", "#dharma", "#motivation", "#hindiquotes",
       "#sanskrit", "#lifequotes", "#innerpeace", "#mindset",
       "#dailywisdom", "#quotes", "#inspiration", "#peace",
       "#bhakti", "#sanatan", "#india", "#meditation" >>

CTA_LINES ==
    << "Save this for later.",
       "Share this with someone who needs it.",
       "Comment 'Om' if this touched your heart.",
       "Follow @dailywisdomgita for daily Gita wisdom.",
       "Pause. Breathe. Reflect." >>

\* The random source: a stream r of numbers; the k-th call (from 0) of
\* randbelow(m) gives the k-th number of the stream, taken round, modulo m.
randbelow(r, k, m) == r[(k % Len(r)) + 1] % m

Min(a, b) == IF a <= b THEN a ELSE b
Max(a, b) == IF a >= b THEN a ELSE b

RECURSIVE sample_from(_, _, _, _)
\* the loop of random.sample over its pool copy: k more picks, each moving
\* the last live element of the pool into the place of the one picked
sample_from(pool, k, r, at) ==
    IF k = 0 THEN <<>>
    ELSE LET n == Len(pool)
             j == randbelow(r, at, n) + 1
         IN  <<pool[j]>> \o
             sample_from(SubSeq([pool EXCEPT ![j] = pool[n]], 1, n - 1), k - 1, r, at + 1)

\* random.sample(population, k), drawing from call number `at` of the stream
random_sample(population, k, r, at) ==
    IF k < 0 \/ k > Len(population)
    THEN [exc |-> "ValueError", value |-> <<>>]
    ELSE [exc |-> "none", value |-> sample_from(population, k, r, at)]

\* picks with replacement: random.choices(HASHTAGS_POOL, k=n)
pick_hashtags_choices(n, r, at) ==
    LET k == Min(n, Len(HASHTAGS_POOL))
    IN  IF k < 0 THEN [exc |-> "ValueError", value |-> <<>>]
        ELSE [exc |-> "none",
              value |-> [i \in 1..k |->
                            HASHTAGS_POOL[randbelow(r, at + i - 1, Len(HASHTAGS_POOL)) + 1]]]

\* pick_hashtags(n)
pick_hashtags(n, r, at) == random_sample(HASHTAGS_POOL, Min(n, Len(HASHTAGS_POOL)), r, at)

\* [k for k in required if k not in q or not str(q[k]).strip()]
required == <<"sanskrit", "english", "hindi", "reference">>
IsMissing(q, k) == k \notin DOMAIN q \/ strip(PyStr(q[k])) = <<>>
missing_keys(q) == SelectSeq(required, LAMBDA k : IsMissing(q, k))

\* load_quote of make_caption.py
load_quote ==
    IF today_quote = NoFile
    THEN [exc |-> [type |-> "FileNotFoundError"], value |-> None]
    ELSE IF missing_keys(today_quote) # <<>>
    THEN [exc |-> [type |-> "ValueError", keys |-> missing_keys(today_quote)], value |-> None]
    ELSE [exc |-> NoExc, value |-> today_quote]

RECURSIVE Join(_, _)
\* sep.join(parts), the parts being single tokens
Join(parts, sep) == IF parts = <<>> THEN <<>>
                    ELSE IF Len(parts) = 1 THEN <<parts[1]>>
                    ELSE <<parts[1], sep>> \o Join(Tail(parts), sep)

\* build_caption(q) with the random stream r: the caption as a text whose
\* fixed phrases are single tokens
build_caption(q, r) ==
    LET t0 == Get(q, "topic", JStr(<<>>))
    IN  IF t0.t # "str"
        THEN [exc |-> [type |-> "AttributeError"], value |-> <<>>]
        ELSE
        LET topic == strip(t0.s)
            topic_line == IF topic # <<>> THEN <<"Topic: ">> \o topic \o <<"\n", "\n">>
                          ELSE <<>>
            cta == CTA_LINES[randbelow(r, 0, Len(CTA_LINES)) + 1]
            tags == Join(pick_hashtags(5, r, 1).value, " ")
            caption ==
                <<"Bhagavad Gita Wisdom", "\n", "\n">> \o topic_line
                \o <<"Sanskrit:", "\n">> \o PyStr(q["sanskrit"]) \o <<"\n", "\n">>
                \o <<"English:", "\n">> \o PyStr(q["english"]) \o <<"\n", "\n">>
                \o <<"Hindi:", "\n">> \o PyStr(q["hindi"]) \o <<"\n", "\n">>
                \o <<"Reference: Bhagavad Gita ">> \o PyStr(q["reference"]) \o <<"\n", "\n">>
                \o <<cta, "\n", "\n">> \o tags \o <<"\n">>
        IN  [exc |-> NoExc, value |-> strip(caption) \o <<"\n">>]

RandLen == 2
RandStreams == [1..RandLen -> 0..(Len(HASHTAGS_POOL) - 1)]

\* main() of make_caption.py, the whole run
cap_main ==
    /\ cap_pc = "start"
    /\ LET q == load_quote
       IN  \/ /\ q.exc # NoExc
              /\ cap_pc' = "raised"
              /\ cap_exc' = q.exc
              /\ UNCHANGED caption_file
           \/ /\ q.exc = NoExc
              /\ \E r \in RandStreams :
                    LET c == build_caption(q.value, r)
                    IN  IF c.exc # NoExc
                        THEN /\ cap_pc' = "raised"
                             /\ cap_exc' = c.exc
                             /\ UNCHANGED caption_file
                        ELSE /\ cap_pc' = "done"
                             /\ cap_exc' = NoExc
                             /\ caption_file' = c.value
    /\ UNCHANGED <<ph_n, ph_out, today_quote>>
    /\ UNCHANGED <<pick_vars, reel_vars, frame_vars, wrap_vars>>

\* a call pick_hashtags(ph_n)
call_pick_hashtags ==
    /\ cap_pc = "idle"
    /\ ph_out = NoCall
    /\ \E r \in RandStreams :
          LET res == pick_hashtags(ph_n, r, 0)
          IN  ph_out' = [returned |-> TRUE, exc |-> res.exc, value |-> res.value]
    /\ UNCHANGED <<ph_n, caption_file, cap_pc, cap_exc, today_quote>>
    /\ UNCHANGED <<pick_vars, reel_vars, frame_vars, wrap_vars>>

-----------------------------------------------------------------------------
(* Rendering: scripts/make_reel_github_linux.py and scripts/make_reel copy.py
   (clamp, ease_out, fade_alpha and wrap_lines are the same in both) *)

DURATION == 12
FPS == 30

\* Time is counted in ticks, ten to a frame, so that the frame times i / FPS
\* and the fade times (tenths of a second) are whole numbers of ticks.
TicksPerSecond == FPS * 10
Seconds10(tenths) == tenths * FPS

\* A ratio x is kept as its numerator over the denominator den.
\* clamp(x, a=0, b=1): max(a, min(b, x)), with a = 0 and b = den / den
clamp(x, den) == Max(0, Min(den, x))

\* ease_out(t) = 1 - (1 - t) * (1 - t), as a numerator over den * den
ease_out(x, den) == den * den - (den - x) * (den - x)

\* the fade with the clamp left out
fade_alpha_unclamped(time, start, duration) == ease_out(time - start, duration)

\* fade_alpha(t, start, duration): x = (t - start) / duration; ease_out(clamp(x))
fade_alpha(time, start, duration) == ease_out(clamp(time - start, duration), duration)

FadeDuration == Seconds10(8)
AlphaOne == FadeDuration * FadeDuration

\* the five alphas of make_frame(t): a_title, a_san, a_en, a_hi, a_footer
frame_alphas(time) ==
    << fade_alpha(time, Seconds10(2), FadeDuration),
       fade_alpha(time, Seconds10(12), FadeDuration),
       fade_alpha(time, Seconds10(27), FadeDuration),
       fade_alpha(time, Seconds10(40), FadeDuration),
       fade_alpha(time, Seconds10(52), FadeDuration) >>

\* make_frame called for the next time of the clip
make_frame ==
    /\ t < DURATION * TicksPerSecond
    /\ t' = t + 1
    /\ alpha' = frame_alphas(t + 1)
    /\ UNCHANGED <<pick_vars, today_quote, caption_vars, reel_vars, wrap_vars>>

\* The font: draw.textbbox((0, 0), text, font)[2], the right edge of the text
\* drawn from x = 0, is the sum of the advances of its characters.
Advance(c) == CASE c = "W" -> 3
                [] c = "i" -> 1
                [] OTHER -> 1

RECURSIVE textbbox_right(_)
textbbox_right(text) == IF text = <<>> THEN 0
                        ELSE Advance(Head(text)) + textbbox_right(Tail(text))

RECURSIVE split(_)
\* str.split(): the runs of characters between whitespace
split(text) ==
    LET s == lstrip(text)
    IN  IF s = <<>> THEN <<>>
        ELSE LET ends == {k \in 1..Len(s) : k = Len(s) \/ s[k + 1] \in Whitespace}
                 e == CHOOSE k \in ends : \A j \in ends : k <= j
             IN  <<SubSeq(s, 1, e)>> \o split(SubSeq(s, e + 1, Len(s)))

RECURSIVE wrap_loop_strict(_, _, _, _)
\* the loop with bbox[2] < max_width
wrap_loop_strict(words, lines, cur, max_width) ==
    IF words = <<>> THEN (IF cur # <<>> THEN Append(lines, cur) ELSE lines)
    ELSE LET w == Head(words)
             test == strip(cur \o <<" ">> \o w)
         IN  IF textbbox_right(test) < max_width
             THEN wrap_loop_strict(Tail(words), lines, test, max_width)
             ELSE wrap_loop_strict(Tail(words),
                                   IF cur # <<>> THEN Append(lines, cur) ELSE lines,
                                   w, max_width)

RECURSIVE wrap_loop(_, _, _, _)
\* for w in words: ...; if cur: lines.append(cur)
wrap_loop(words, lines, cur, max_width) ==
    IF words = <<>> THEN (IF cur # <<>> THEN Append(lines, cur) ELSE lines)
    ELSE LET w == Head(words)
             test == strip(cur \o <<" ">> \o w)
         IN  IF textbbox_right(test) <= max_width
             THEN wrap_loop(Tail(words), lines, test, max_width)
             ELSE wrap_loop(Tail(words),
                            IF cur # <<>> THEN Append(lines, cur) ELSE lines,
                            w, max_width)

wrap_lines_strict(text, max_width) == wrap_loop_strict(split(text), <<>>, <<>>, max_width)

\* wrap_lines(draw, text, font_obj, max_width)
wrap_lines(text, max_width) == wrap_loop(split(text), <<>>, <<>>, max_width)

\* a call wrap_lines(draw, w_text, font, w_max)
call_wrap_lines ==
    /\ w_lines = NoCall
    /\ w_lines' = [returned |-> TRUE, value |-> wrap_lines(w_text, w_max)]
    /\ UNCHANGED <<w_text, w_max>>
    /\ UNCHANGED <<pick_vars, today_quote, caption_vars, reel_vars, frame_vars>>

-----------------------------------------------------------------------------
(* The reel scripts: assets, music, and the run of main *)

FontSans == "NotoSans-Regular.ttf"
FontDevanagari == "NotoSansDevanagari-Regular.ttf"
Background == "bg_krishna_arjuna.png"

\* f"Music{i}.mp3"
music_name(i) == <<"Music">> \o Dec(i) \o <<".mp3">>

\* the pattern written "*": every name of the folder
is_any_file(name) == name # <<>>

\* the names glob("*.mp3") matches
is_mp3(name) == name # <<>> /\ name[Len(name)] = ".mp3"

\* the tracks pick_music_file may return, random.choice being free to take
\* any of its list, or the exception it raises
music_choices(numbers) ==
    IF ~music_dir.exists
    THEN [exc |-> Exc("FileNotFoundError", "music"), choices |-> {}]
    ELSE LET preferred == {music_name(i) : i \in numbers} \cap music_dir.files
             mp3s == {f \in music_dir.files : is_mp3(f)}
         IN  IF preferred # {} THEN [exc |-> NoExc, choices |-> preferred]
             ELSE IF mp3s = {} THEN [exc |-> Exc("FileNotFoundError", "music"), choices |-> {}]
             ELSE [exc |-> NoExc, choices |-> mp3s]

\* the loop written range(1, 10)
pick_music_file_to_9 == music_choices(1..9)

\* pick_music_file()
pick_music_file == music_choices(1..10)

\* a call of pick_music_file()
call_pick_music_file ==
    /\ reel_pc = "idle"
    /\ music_path = NoCall
    /\ LET res == pick_music_file
       IN  \/ /\ res.exc # NoExc
              /\ music_path' = [returned |-> TRUE, exc |-> res.exc.type, value |-> <<>>]
           \/ /\ res.exc = NoExc
              /\ \E f \in res.choices :
                    music_path' = [returned |-> TRUE, exc |-> "none", value |-> f]
    /\ UNCHANGED <<assets, music_dir, reel_file, reel_pc, reel_exc, reel_script>>
    /\ UNCHANGED <<pick_vars, today_quote, caption_vars, frame_vars, wrap_vars>>

RECURSIVE first_read_error(_, _)
\* The first exception of the reads of quote fields a frame makes, in order.
\* A read is [key, text]: quote[key], then, where text is TRUE, a use that
\* only a str allows (text.split() in wrap_lines, xml_escape for pango-view).
first_read_error(q, reads) ==
    IF reads = <<>> THEN NoExc
    ELSE LET r == Head(reads)
         IN  IF r.key \notin DOMAIN q THEN Exc("KeyError", r.key)
             ELSE IF r.text /\ q[r.key].t # "str" THEN Exc("AttributeError", r.key)
             ELSE first_read_error(q, Tail(reads))

Read(key, text) == [key |-> key, text |-> text]

\* make_frame(t) of make_reel_github_linux.py: the quote fields it reads
linux_frame_reads(time) ==
    LET a == frame_alphas(time)
    IN  <<Read("topic", TRUE)>>
        \o (IF a[2] > 0 THEN <<Read("sanskrit", TRUE)>> ELSE <<>>)
        \o <<Read("english", TRUE)>>
        \o (IF a[4] > 0 THEN <<Read("hindi", TRUE)>> ELSE <<>>)
        \o <<Read("reference", FALSE)>>

\* make_frame(t) of make_reel copy.py
copy_frame_reads(time) ==
    << Read("topic", TRUE), Read("sanskrit", TRUE), Read("english", TRUE),
       Read("hindi", TRUE), Read("reference", FALSE), Read("date", FALSE) >>

\* the times write_videofile asks frames for: i / FPS, i < DURATION * FPS
FrameTimes == {i * (TicksPerSecond \div FPS) : i \in 0..(DURATION * FPS - 1)}

\* make_frame(t) of the script named
frame_reads(script, time) ==
    IF script = "copy" THEN copy_frame_reads(time) ELSE linux_frame_reads(time)

\* the exception of the first frame of the clip that raises, or NoExc
clip_error(q, script) ==
    LET bad == {ft \in FrameTimes : first_read_error(q, frame_reads(script, ft)) # NoExc}
    IN  IF bad = {} THEN NoExc
        ELSE first_read_error(q, frame_reads(script, CHOOSE ft \in bad : \A o \in bad : ft <= o))

ReelRaises(e) ==
    /\ reel_pc' = "raised"
    /\ reel_exc' = e

\* main() of make_reel_github_linux.py, the whole run
reel_main ==
    /\ reel_pc = "start"
    /\ reel_script' = "github_linux"
    /\ IF today_quote = NoFile
       THEN ReelRaises(Exc("FileNotFoundError", "today_quote.json")) /\ UNCHANGED reel_file
       ELSE IF FontSans \notin assets
       THEN ReelRaises(Exc("FileNotFoundError", FontSans)) /\ UNCHANGED reel_file
       ELSE IF Background \notin assets
       THEN ReelRaises(Exc("FileNotFoundError", Background)) /\ UNCHANGED reel_file
       \* VideoClip(make_frame, ...) makes the frame at t = 0
       ELSE IF first_read_error(today_quote, linux_frame_reads(0)) # NoExc
       THEN ReelRaises(first_read_error(today_quote, linux_frame_reads(0)))
            /\ UNCHANGED reel_file
       \* clip.set_audio(build_audio())
       ELSE IF pick_music_file.exc # NoExc
       THEN ReelRaises(pick_music_file.exc) /\ UNCHANGED reel_file
       ELSE \E f \in pick_music_file.choices :
               \* clip.write_videofile(...)
               IF clip_error(today_quote, "github_linux") # NoExc
               THEN /\ ReelRaises(clip_error(today_quote, "github_linux"))
                    /\ reel_file' = [complete |-> FALSE, audio |-> f]
               ELSE /\ reel_pc' = "done"
                    /\ reel_exc' = NoExc
                    /\ reel_file' = [complete |-> TRUE, audio |-> f]
    /\ UNCHANGED <<assets, music_dir, music_path>>
    /\ UNCHANGED <<pick_vars, today_quote, caption_vars, frame_vars, wrap_vars>>

\* main() of make_reel copy.py, the whole run
reel_copy_main ==
    /\ reel_pc = "start"
    /\ reel_script' = "copy"
    /\ IF today_quote = NoFile
       THEN ReelRaises(Exc("FileNotFoundError", "today_quote.json")) /\ UNCHANGED reel_file
       ELSE IF FontSans \notin assets
       THEN ReelRaises(Exc("FileNotFoundError", FontSans)) /\ UNCHANGED reel_file
       ELSE IF FontDevanagari \notin assets
       THEN ReelRaises(Exc("FileNotFoundError", FontDevanagari)) /\ UNCHANGED reel_file
       ELSE IF Background \notin assets
       THEN ReelRaises(Exc("FileNotFoundError", Background)) /\ UNCHANGED reel_file
       ELSE IF clip_error(today_quote, "copy") # NoExc
       THEN ReelRaises(clip_error(today_quote, "copy")) /\ UNCHANGED reel_file
       ELSE /\ reel_pc' = "done"
            /\ reel_exc' = NoExc
            /\ reel_file' = [complete |-> TRUE, audio |-> <<>>]
    /\ UNCHANGED <<assets, music_dir, music_path>>
    /\ UNCHANGED <<pick_vars, today_quote, caption_vars, frame_vars, wrap_vars>>

-----------------------------------------------------------------------------
(* The parts of the state a run of one script leaves alone *)

PickIdle ==
    /\ now_utc = [year |-> 2024, month |-> 2, day |-> 1, hour |-> 12, minute |-> 0]
    /\ local_tz = 0
    /\ data = <<>>
    /\ pick_pc = "idle"
    /\ pick_exc = "none"
    /\ req_file = <<>>
    /\ today_str = <<>>

CaptionIdle ==
    /\ caption_file = NoFile
    /\ cap_pc = "idle"
    /\ cap_exc = NoExc
    /\ ph_n = 0
    /\ ph_out = NoCall

ReelIdle ==
    /\ assets = {}
    /\ music_dir = NoDir
    /\ music_path = NoCall
    /\ reel_file = NoFile
    /\ reel_pc = "idle"
    /\ reel_exc = NoExc
    /\ reel_script = "none"

FrameIdle ==
    /\ t = 0
    /\ alpha = <<0, 0, 0, 0, 0>>

WrapIdle ==
    /\ w_text = <<>>
    /\ w_max = 0
    /\ w_lines = NoCall

-----------------------------------------------------------------------------
(* Runs of pick_today_quote.py over month files of at most MaxRecords records *)

MaxRecords == 2

Feb01 == <<"2", "0", "2", "4", "-", "0", "2", "-", "0", "1">>
Jan31 == <<"2", "0", "2", "4", "-", "0", "1", "-", "3", "1">>

\* Records of a month file: the date plain, padded with whitespace, another
\* day's, and missing.
PickRecords ==
    { [date |-> JStr(Feb01), topic |-> JStr(<<"a">>)],
      [date |-> JStr(<<" ">> \o Feb01 \o <<"\n">>), topic |-> JStr(<<"b">>)],
      [date |-> JStr(Jan31), topic |-> JStr(<<"c">>)],
      [topic |-> JStr(<<"d">>)] }

SeqsUpTo(S, n) == UNION {[1..k -> S] : k \in 0..n}

Older == [date |-> JStr(<<"2", "0", "2", "4", "-", "0", "1", "-", "3", "0">>),
          topic |-> JStr(<<"z">>)]

PickFiles == { <<"krishna_quotes_", "2", "0", "2", "4", "_", "0", "1", ".json">>,
               <<"krishna_quotes_", "2", "0", "2", "4", "_", "0", "2", ".json">> }

PickInstants ==
    { [year |-> 2024, month |-> 1, day |-> 31, hour |-> 18, minute |-> 29],
      [year |-> 2024, month |-> 1, day |-> 31, hour |-> 18, minute |-> 30],
      [year |-> 2024, month |-> 2, day |-> 1,  hour |-> 12, minute |-> 0],
      [year |-> 2024, month |-> 2, day |-> 29, hour |-> 19, minute |-> 0] }

PickInit ==
    /\ now_utc \in PickInstants
    /\ local_tz = 0
    /\ data \in UNION {[S -> SeqsUpTo(PickRecords, MaxRecords)] : S \in SUBSET PickFiles}
    /\ today_quote \in {NoFile, Older}
    /\ pick_pc = "start"
    /\ pick_exc = "none"
    /\ req_file = <<>>
    /\ today_str = <<>>
    /\ CaptionIdle /\ ReelIdle /\ FrameIdle /\ WrapIdle

SpecPick == PickInit /\ [][pick_main]_vars

(* Runs of pick_today_quote.py at instants around day, month and year ends,
   on machines in several time zones *)

ClockYears == {2023, 2024}
ClockDays == {1, 15, 28, 29, 30, 31}
ClockHours == {0, 18, 19, 23}
ClockMinutes == {0, 29, 30, 59}
ClockZones == {-480, 0, 330, 540}

ClockInstants ==
    { i \in [year : ClockYears, month : 1..12, day : ClockDays,
             hour : ClockHours, minute : ClockMinutes] :
        i.day <= DaysInMonth(i.year, i.month) }

\* every month of ClockYears and of the year after has its file, each empty
ClockData ==
    LET keys == {<<y, m>> : y \in ClockYears \cup {yy + 1 : yy \in ClockYears}, m \in 1..12}
        names == {month_file_name(k[1], k[2]) : k \in keys}
    IN  [n \in names |-> <<>>]

ClockInit ==
    /\ now_utc \in ClockInstants
    /\ local_tz \in ClockZones
    /\ data = ClockData
    /\ today_quote = NoFile
    /\ pick_pc = "start"
    /\ pick_exc = "none"
    /\ req_file = <<>>
    /\ today_str = <<>>
    /\ CaptionIdle /\ ReelIdle /\ FrameIdle /\ WrapIdle

SpecClock == ClockInit /\ [][pick_main]_vars


-----------------------------------------------------------------------------
(* What the claims about pick_today_quote.py speak of, stated apart from the
   script: the IST day by day numbers, and a text read back as a date *)

DaysBeforeYear(y) == (y - 1) * 365 + (y - 1) \div 4 - (y - 1) \div 100 + (y - 1) \div 400

RECURSIVE DaysBeforeMonth(_, _)
DaysBeforeMonth(y, m) == IF m = 1 THEN 0 ELSE DaysBeforeMonth(y, m - 1) + DaysInMonth(y, m - 1)

\* the day number of a date (1 January of year 1 is day 1)
Ordinal(d) == DaysBeforeYear(d.year) + DaysBeforeMonth(d.year, d.month) + d.day

\* the date, in the zone off minutes east of UTC, of the instant i
DateInZone(i, off) ==
    LET minutes == Ordinal(i) * 1440 + i.hour * 60 + i.minute + off
        near == { c \in [year  : (i.year - 1)..(i.year + 1),
                         month : {1, 12, i.month - 1, i.month, i.month + 1} \cap 1..12,
                         day   : {1, i.day - 1, i.day, i.day + 1, 28, 29, 30, 31} \cap 1..31] :
                    c.day <= DaysInMonth(c.year, c.month) }
    IN  CHOOSE c \in near : Ordinal(c) * 1440 <= minutes /\ minutes < (Ordinal(c) + 1) * 1440

ExpectedToday == DateInZone(now_utc, 330)

IsDigits(s) == \A k \in 1..Len(s) : \E n \in 0..9 : DigitChars[n + 1] = s[k]

RECURSIVE Val(_)
\* the number a text of digits writes
Val(s) == IF s = <<>> THEN 0
          ELSE Val(SubSeq(s, 1, Len(s) - 1)) * 10
               + (CHOOSE n \in 0..9 : DigitChars[n + 1] = s[Len(s)])

\* s is YYYY-MM-DD of the date d
IsYmdOf(s, d) ==
    /\ Len(s) = 10
    /\ s[5] = "-" /\ s[8] = "-"
    /\ IsDigits(SubSeq(s, 1, 4)) /\ IsDigits(SubSeq(s, 6, 7)) /\ IsDigits(SubSeq(s, 9, 10))
    /\ Val(SubSeq(s, 1, 4)) = d.year
    /\ Val(SubSeq(s, 6, 7)) = d.month
    /\ Val(SubSeq(s, 9, 10)) = d.day

\* f is krishna_quotes_<year>_<month, two digits>.json of the month of d
IsMonthFileOf(f, d) ==
    /\ Len(f) = 9
    /\ f[1] = "krishna_quotes_" /\ f[6] = "_" /\ f[9] = ".json"
    /\ IsDigits(SubSeq(f, 2, 5)) /\ IsDigits(SubSeq(f, 7, 8))
    /\ Val(SubSeq(f, 2, 5)) = d.year
    /\ Val(SubSeq(f, 7, 8)) = d.month

\* the record q is dated d: its date, as a string and stripped, is d as YYYY-MM-DD
DatedOn(q, d) == "date" \in DOMAIN q /\ IsYmdOf(strip(PyStr(q["date"])), d)

TodayFiles == {f \in DOMAIN data : IsMonthFileOf(f, ExpectedToday)}
TodayIndexes(f) == {k \in 1..Len(data[f]) : DatedOn(data[f][k], ExpectedToday)}

(* C1: when the month file of the current day holds a record dated today, the
   run ends normally and output/today_quote.json is the first such record of
   the file, field for field; whatever a run writes is dated today. *)
C1_FirstRecordOfToday ==
    pick_pc \in {"done", "raised"} =>
        /\ \A f \in TodayFiles :
              TodayIndexes(f) # {} =>
                  /\ pick_pc = "done"
                  /\ \E k \in TodayIndexes(f) :
                        /\ \A j \in TodayIndexes(f) : k <= j
                        /\ today_quote = data[f][k]
        /\ pick_pc = "done" =>
              /\ DatedOn(today_quote, ExpectedToday)
              /\ \E f \in TodayFiles : \E k \in 1..Len(data[f]) : today_quote = data[f][k]

\* a run that wrote the first of two different records dated today, the first
\* one with a padded date
C1_Witness ==
    /\ pick_pc = "done"
    /\ \E f \in TodayFiles :
          /\ Cardinality(TodayIndexes(f)) >= 2
          /\ data[f][1] # data[f][2]
          /\ today_quote = data[f][1]
          /\ PyStr(today_quote["date"]) # strip(PyStr(today_quote["date"]))

(* C4: a run with no month file for the current day raises FileNotFoundError,
   a run whose month file holds no record dated today raises an exception, and
   a run that raises leaves output/today_quote.json as it was. *)
C4_RaisesAndKeepsOutput ==
    [][ (pick_pc = "start" /\ pick_pc' # "start") =>
            /\ TodayFiles = {} => (pick_pc' = "raised" /\ pick_exc' = "FileNotFoundError")
            /\ (\E f \in TodayFiles : TodayIndexes(f) = {}) =>
                   (pick_pc' = "raised" /\ pick_exc' = "Exception")
            /\ pick_pc' = "raised" => today_quote' = today_quote ]_vars

\* a run that found no record of today and kept an earlier run's output
C4_Witness ==
    /\ pick_pc = "raised"
    /\ pick_exc = "Exception"
    /\ today_quote = Older
    /\ \E f \in TodayFiles : Len(data[f]) > 0

(* C7: whatever the machine's zone, the month file asked for and the date
   searched for are those of the run's instant in IST (UTC+5:30), so both name
   the same year and month; 31 January 19:00 UTC gives the February file and
   1 February. *)
C7_DayIsIST ==
    pick_pc \in {"done", "raised"} =>
        /\ IsMonthFileOf(req_file, ExpectedToday)
        /\ IsYmdOf(today_str, ExpectedToday)
        /\ SubSeq(today_str, 1, 4) = SubSeq(req_file, 2, 5)
        /\ SubSeq(today_str, 6, 7) = SubSeq(req_file, 7, 8)
        /\ (now_utc = [year |-> 2024, month |-> 1, day |-> 31, hour |-> 19, minute |-> 0]
               => /\ req_file = <<"krishna_quotes_", "2", "0", "2", "4", "_", "0", "2", ".json">>
                  /\ today_str = Feb01)

\* the run of 31 December 2023 18:30 UTC on a machine at UTC-8: the file of
\* January 2024 and the date 2024-01-01
C7_Witness ==
    /\ pick_pc = "raised"
    /\ local_tz = -480
    /\ now_utc = [year |-> 2023, month |-> 12, day |-> 31, hour |-> 18, minute |-> 30]
    /\ req_file = <<"krishna_quotes_", "2", "0", "2", "4", "_", "0", "1", ".json">>
    /\ today_str = <<"2", "0", "2", "4", "-", "0", "1", "-", "0", "1">>


-----------------------------------------------------------------------------
(* Runs of make_caption.py over the quote files it may find, and calls of
   pick_hashtags(n) for n up to MaxN *)

MaxN == 22

Sa == <<"s", "a">>
En == <<"e", " ", "n">>
Hi == <<"h", "i">>
Ref == <<"2", ".", "4", "7">>
Blank == <<" ", "\n">>

\* today_quote.json: each required key missing, blank or filled; the topic
\* missing, blank, filled or null; the reference possibly a number
CaptionQuotes ==
    LET opt(k, vals) == {<<>>} \cup {<<k, v>> : v \in vals}
        rec(S) == [k \in {p[1] : p \in S} |-> (CHOOSE p \in S : p[1] = k)[2]]
    IN  { rec({p \in {s, e, h, f, tp} : p # <<>>}) :
            s  \in opt("sanskrit", {JStr(Sa), JStr(Blank)}),
            e  \in opt("english", {JStr(En), JStr(<<>>)}),
            h  \in opt("hindi", {JStr(Hi), JStr(Blank)}),
            f  \in opt("reference", {JStr(Ref), JNum(3)}),
            tp \in opt("topic", {JStr(<<" ", "T">>), JStr(Blank), None}) }

OldCaption == <<"old caption", "\n">>

CaptionInit ==
    /\ \/ /\ cap_pc = "start"
          /\ today_quote \in CaptionQuotes \cup {NoFile}
          /\ caption_file \in {NoFile, OldCaption}
          /\ ph_n = 0
       \/ /\ cap_pc = "idle"
          /\ today_quote = NoFile
          /\ caption_file = NoFile
          /\ ph_n \in -1..MaxN
    /\ cap_exc = NoExc
    /\ ph_out = NoCall
    /\ PickIdle /\ ReelIdle /\ FrameIdle /\ WrapIdle

CaptionNext == cap_main \/ call_pick_hashtags

SpecCaption == CaptionInit /\ [][CaptionNext]_vars


-----------------------------------------------------------------------------
(* The frames of one clip, and calls of wrap_lines on texts of at most
   MaxTextLen characters and widths up to MaxWidth *)

FrameInit ==
    /\ t = 0
    /\ alpha = frame_alphas(0)
    /\ today_quote = NoFile
    /\ PickIdle /\ CaptionIdle /\ ReelIdle /\ WrapIdle

SpecFrame == FrameInit /\ [][make_frame]_vars

MaxTextLen == 5
MaxWidth == 6
WrapChars == {" ", "\n", "i", "W"}

WrapInit ==
    /\ w_text \in SeqsUpTo(WrapChars, MaxTextLen)
    /\ w_max \in 0..MaxWidth
    /\ w_lines = NoCall
    /\ today_quote = NoFile
    /\ PickIdle /\ CaptionIdle /\ ReelIdle /\ FrameIdle

SpecWrap == WrapInit /\ [][call_wrap_lines]_vars


-----------------------------------------------------------------------------
(* Claims about make_caption.py *)

RECURSIVE SplitOn(_, _)
\* the pieces of text between the separators sep
SplitOn(text, sep) ==
    IF \A k \in 1..Len(text) : text[k] # sep THEN <<text>>
    ELSE LET k == CHOOSE i \in 1..Len(text) :
                     text[i] = sep /\ \A j \in 1..(i - 1) : text[j] # sep
         IN  <<SubSeq(text, 1, k - 1)>> \o SplitOn(SubSeq(text, k + 1, Len(text)), sep)

Range(f) == {f[k] : k \in DOMAIN f}

\* tags is a list of n different members of the pool
DistinctFromPool(tags, n) ==
    /\ Len(tags) = n
    /\ Range(tags) \subseteq Range(HASHTAGS_POOL)
    /\ Cardinality(Range(tags)) = n

(* C3: the last line of every caption written holds exactly 5 hashtags, all
   different, all from HASHTAGS_POOL, and the line two above it is one member
   of CTA_LINES; pick_hashtags(n), n >= 0, returns min(n, size of the pool)
   different members of the pool. *)
C3_HashtagsAndCta ==
    /\ cap_pc = "done" =>
          LET lines == SplitOn(caption_file, "\n")
              n     == Len(lines)
          IN  /\ n >= 4
              /\ lines[n] = <<>>
              /\ lines[n - 2] = <<>>
              /\ Len(lines[n - 3]) = 1
              /\ lines[n - 3][1] \in Range(CTA_LINES)
              /\ LET tags == SplitOn(lines[n - 1], " ")
                 IN  /\ \A k \in 1..Len(tags) : Len(tags[k]) = 1
                     /\ DistinctFromPool([k \in 1..Len(tags) |-> tags[k][1]], 5)
    /\ (ph_out.returned /\ ph_n >= 0) =>
          /\ ph_out.exc = "none"
          /\ DistinctFromPool(ph_out.value, IF ph_n <= 20 THEN ph_n ELSE 20)

\* a caption whose hashtag line is the last tag of the pool, then its first
C3_Witness ==
    /\ cap_pc = "done"
    /\ \E k \in 1..(Len(caption_file) - 2) :
          /\ caption_file[k] = "#meditation"
          /\ caption_file[k + 1] = " "
          /\ caption_file[k + 2] = "#bhagavadgita"

\* the keys of the four required that are absent or blank once made a string
Required4 == {"sanskrit", "english", "hindi", "reference"}
IsBlankText(s) == \A k \in 1..Len(s) : s[k] \in Whitespace
AbsentOrBlank(q) == {k \in Required4 : k \notin DOMAIN q \/ IsBlankText(PyStr(q[k]))}

\* v stands in text at place k
StandsAt(text, v, k) == k + Len(v) - 1 <= Len(text) /\ SubSeq(text, k, k + Len(v) - 1) = v

\* text holds a, b, c, d one after another
HoldsInOrder(text, a, b, c, d) ==
    \E i \in 1..Len(text) :
        /\ StandsAt(text, a, i)
        /\ \E j \in (i + Len(a))..Len(text) :
              /\ StandsAt(text, b, j)
              /\ \E k \in (j + Len(b))..Len(text) :
                    /\ StandsAt(text, c, k)
                    /\ \E l \in (k + Len(c))..Len(text) : StandsAt(text, d, l)

(* C8: a run of make_caption.main with no today_quote.json raises
   FileNotFoundError; with some of sanskrit, english, hindi, reference absent
   or blank it raises ValueError naming exactly those; in both cases
   caption.txt stays as it was; with all four present and not blank
   caption.txt is written and holds the four values in that order. *)
C8_CaptionOnlyFromValidQuote ==
    [][ (cap_pc = "start" /\ cap_pc' # "start") =>
            /\ today_quote = NoFile =>
                  /\ cap_pc' = "raised" /\ cap_exc'.type = "FileNotFoundError"
                  /\ caption_file' = caption_file
            /\ (today_quote # NoFile /\ AbsentOrBlank(today_quote) # {}) =>
                  /\ cap_pc' = "raised" /\ cap_exc'.type = "ValueError"
                  /\ Range(cap_exc'.keys) = AbsentOrBlank(today_quote)
                  /\ Len(cap_exc'.keys) = Cardinality(AbsentOrBlank(today_quote))
                  /\ caption_file' = caption_file
            /\ (today_quote # NoFile /\ AbsentOrBlank(today_quote) = {}) =>
                  /\ cap_pc' = "done"
                  /\ caption_file' # NoFile
                  /\ HoldsInOrder(caption_file',
                                  PyStr(today_quote["sanskrit"]), PyStr(today_quote["english"]),
                                  PyStr(today_quote["hindi"]), PyStr(today_quote["reference"])) ]_vars

-----------------------------------------------------------------------------
(* Claims about the rendering *)

\* the fade starts of the claim, in tenths of a second: title, Sanskrit,
\* English, Hindi, footer
FadeStarts == <<2, 12, 27, 40, 52>>

Partial(a) == 0 < a /\ a < AlphaOne

\* what C5 says of the alphas a of the frame at time (in ticks)
FadesAt(time, a) ==
    /\ \A i \in 1..5 :
          /\ 0 <= a[i] /\ a[i] <= AlphaOne
          /\ time * 10 <= FadeStarts[i] * TicksPerSecond => a[i] = 0
          /\ time * 10 >= (FadeStarts[i] + 8) * TicksPerSecond => a[i] = AlphaOne
    /\ \A i \in 1..4 : a[i] >= a[i + 1]
    /\ Cardinality({i \in 1..5 : Partial(a[i])}) <= 1
    /\ time >= 6 * TicksPerSecond => \A i \in 1..5 : a[i] = AlphaOne

(* C5: at every time of the 12-second clip each of the five alphas is within
   [0, 1], is 0 up to its fade start and 1 from 0.8 s after it, the alphas are
   ordered title >= Sanskrit >= English >= Hindi >= footer, at most one is
   strictly between 0 and 1, all are 1 from 6.0 s on, and none decreases from
   one time to the next. *)
C5_FadeInOrder ==
    [][ /\ FadesAt(t, alpha)
        /\ FadesAt(t', alpha')
        /\ \A i \in 1..5 : alpha'[i] >= alpha[i] ]_vars

\* the frame at 3.0 s: title and Sanskrit opaque, English part way, the rest
\* not yet shown
C5_Witness ==
    /\ t = 3 * TicksPerSecond
    /\ alpha[1] = AlphaOne /\ alpha[2] = AlphaOne
    /\ Partial(alpha[3])
    /\ alpha[4] = 0 /\ alpha[5] = 0

RECURSIVE JoinTexts(_, _)
\* sep.join(parts), the parts being texts
JoinTexts(parts, sep) == IF parts = <<>> THEN <<>>
                         ELSE IF Len(parts) = 1 THEN parts[1]
                         ELSE parts[1] \o <<sep>> \o JoinTexts(Tail(parts), sep)

NotSpace(c) == c \notin Whitespace

(* C6: wrap_lines returns no empty line; its lines joined by single spaces
   are the words of the text joined by single spaces, with every character of
   the text that is not whitespace kept; a line wider than max_width is a
   single word; the first word of every line after the first does not fit
   at the end of the line before it; a text without words gives no line. *)
C6_GreedyWrap ==
    w_lines.returned =>
        LET lines == w_lines.value
            words == split(w_text)
        IN  /\ \A k \in 1..Len(lines) : lines[k] # <<>>
            /\ JoinTexts(lines, " ") = JoinTexts(words, " ")
            /\ SelectSeq(JoinTexts(lines, " "), NotSpace) = SelectSeq(w_text, NotSpace)
            /\ \A k \in 1..Len(words) : \A j \in 1..Len(words[k]) : NotSpace(words[k][j])
            /\ \A k \in 1..Len(lines) :
                  /\ Len(split(lines[k])) >= 2 => textbbox_right(lines[k]) <= w_max
                  /\ textbbox_right(lines[k]) > w_max => Len(split(lines[k])) = 1
            /\ \A k \in 2..Len(lines) :
                  textbbox_right(lines[k - 1] \o <<" ">> \o split(lines[k])[1]) > w_max
            /\ (\A k \in 1..Len(w_text) : w_text[k] \in Whitespace) => lines = <<>>

\* a wrap into a line of two words that fills max_width exactly and a second
\* line for the word that no longer fits
C6_Witness ==
    /\ w_lines.returned
    /\ Len(w_lines.value) = 2
    /\ Len(split(w_lines.value[1])) = 2
    /\ textbbox_right(w_lines.value[1]) = w_max


-----------------------------------------------------------------------------
(* Runs of the reel scripts, and calls of pick_music_file, over the music
   folders, assets and quote files they may find *)

MusicNames ==
    { <<"Music", "1", ".mp3">>, <<"Music", "1", "0", ".mp3">>, <<"Music", "1", "1", ".mp3">>,
      <<"song", ".mp3">>, <<"Music", "2", ".wav">>, <<"Music", "0", "3", ".mp3">> }

MusicDirs == {NoDir} \cup {Dir(S) : S \in SUBSET MusicNames}

QuoteKeys == {"topic", "sanskrit", "english", "hindi", "reference", "date"}

QuoteText(k) == JStr(<<k>>)

\* today_quote.json with any of the six keys, each a text; and the same with
\* a null topic
ReelQuotes ==
    {[k \in K |-> QuoteText(k)] : K \in SUBSET QuoteKeys}
    \cup {[k \in K \cup {"topic"} |-> IF k = "topic" THEN None ELSE QuoteText(k)] :
             K \in SUBSET QuoteKeys}

AllAssets == {FontSans, FontDevanagari, Background}

ReelInit ==
    /\ reel_pc = "start"
    /\ today_quote \in ReelQuotes \cup {NoFile}
    /\ assets \in SUBSET AllAssets
    /\ music_dir \in MusicDirs
    /\ music_path = NoCall
    /\ reel_file = NoFile
    /\ reel_exc = NoExc
    /\ reel_script = "none"
    /\ PickIdle /\ CaptionIdle /\ FrameIdle /\ WrapIdle

ReelNext == reel_main \/ reel_copy_main

SpecReel == ReelInit /\ [][ReelNext]_vars

MusicInit ==
    /\ reel_pc = "idle"
    /\ today_quote = NoFile
    /\ assets = AllAssets
    /\ music_dir \in MusicDirs
    /\ music_path = NoCall
    /\ reel_file = NoFile
    /\ reel_exc = NoExc
    /\ reel_script = "none"
    /\ PickIdle /\ CaptionIdle /\ FrameIdle /\ WrapIdle

SpecMusic == MusicInit /\ [][call_pick_music_file]_vars

(* The caption script and a reel script run on the same today_quote.json *)

PipelineInit ==
    /\ today_quote \in ReelQuotes
    /\ cap_pc = "start"
    /\ caption_file = NoFile
    /\ cap_exc = NoExc
    /\ ph_n = 0
    /\ ph_out = NoCall
    /\ reel_pc = "start"
    /\ assets = AllAssets
    /\ music_dir = Dir({<<"Music", "1", ".mp3">>, <<"song", ".mp3">>})
    /\ music_path = NoCall
    /\ reel_file = NoFile
    /\ reel_exc = NoExc
    /\ reel_script = "none"
    /\ PickIdle /\ FrameIdle /\ WrapIdle

PipelineNext == cap_main \/ reel_main \/ reel_copy_main

SpecPipeline == PipelineInit /\ [][PipelineNext]_vars

-----------------------------------------------------------------------------
(* Claims about the reel scripts *)

Numbered ==
    { <<"Music", "1", ".mp3">>, <<"Music", "2", ".mp3">>, <<"Music", "3", ".mp3">>,
      <<"Music", "4", ".mp3">>, <<"Music", "5", ".mp3">>, <<"Music", "6", ".mp3">>,
      <<"Music", "7", ".mp3">>, <<"Music", "8", ".mp3">>, <<"Music", "9", ".mp3">>,
      <<"Music", "1", "0", ".mp3">> }

NumberedThere == music_dir.files \cap Numbered
Mp3There == {f \in music_dir.files : f[Len(f)] = ".mp3"}

\* the quote has every field as a text, and the fonts and background of the
\* github_linux script are there
LinuxInputsFine ==
    /\ today_quote # NoFile
    /\ \A k \in {"topic", "sanskrit", "english", "hindi", "reference"} :
          k \in DOMAIN today_quote /\ today_quote[k].t = "str"
    /\ {FontSans, Background} \subseteq assets

(* C2, as first stated: make_reel_github_linux.main writes output/reel.mp4
   with audio when the music folder holds a track and without audio when the
   folder is absent or holds no .mp3; the absence of music never makes the
   run fail. *)
C2_MusicOptional ==
    (reel_script = "github_linux" /\ reel_pc \in {"done", "raised"}) =>
        /\ (reel_pc = "raised" => reel_exc.key # "music")
        /\ LinuxInputsFine =>
              /\ reel_pc = "done"
              /\ reel_file # NoFile
              /\ reel_file.complete
              /\ (Mp3There # {} => reel_file.audio \in Mp3There)
              /\ (Mp3There = {} => reel_file.audio = <<>>)

(* C2, amended: with its quote, fonts and background in place,
   make_reel_github_linux.main writes output/reel.mp4 with a track of the
   music folder as audio when the folder holds an .mp3, and raises
   FileNotFoundError, writing no reel.mp4, when the folder is absent or holds
   no .mp3. *)
C2_MusicRequired ==
    (reel_script = "github_linux" /\ reel_pc \in {"done", "raised"} /\ LinuxInputsFine) =>
        /\ Mp3There # {} =>
              /\ reel_pc = "done"
              /\ reel_file # NoFile
              /\ reel_file.complete
              /\ reel_file.audio \in Mp3There
        /\ Mp3There = {} =>
              /\ reel_pc = "raised"
              /\ reel_exc = Exc("FileNotFoundError", "music")
              /\ reel_file = NoFile

\* a run that raised for want of music in a folder that holds a file, but no
\* .mp3
C2_Witness ==
    /\ reel_script = "github_linux"
    /\ reel_pc = "raised"
    /\ reel_exc = Exc("FileNotFoundError", "music")
    /\ LinuxInputsFine
    /\ music_dir.exists
    /\ music_dir.files # {}
    /\ reel_file = NoFile

(* C9: pick_music_file returns one of Music1.mp3 ... Music10.mp3 that is in
   the folder whenever one is; else one of the *.mp3 of the folder when there
   is one; else, and when there is no folder, it raises FileNotFoundError;
   what it returns is always a file of the folder. *)
C9_NumberedTracksFirst ==
    music_path.returned =>
        /\ NumberedThere # {} =>
              (music_path.exc = "none" /\ music_path.value \in NumberedThere)
        /\ (NumberedThere = {} /\ Mp3There # {}) =>
              (music_path.exc = "none" /\ music_path.value \in Mp3There)
        /\ Mp3There = {} =>
              (music_path.exc = "FileNotFoundError" /\ music_path.value = <<>>)
        /\ music_path.exc = "none" =>
              (music_dir.exists /\ music_path.value \in music_dir.files)

\* Music10.mp3 returned from a folder that also holds other .mp3 files but
\* no other numbered track
C9_Witness ==
    /\ music_path.returned
    /\ music_path.value = <<"Music", "1", "0", ".mp3">>
    /\ NumberedThere = {<<"Music", "1", "0", ".mp3">>}
    /\ Cardinality(Mp3There) >= 3

(* C10: whenever the caption script writes a caption from a today_quote.json,
   a reel script run on the same file finds every quote field it reads: it
   does not raise KeyError. *)
C10_StagesAgreeOnFields ==
    (cap_pc = "done" /\ reel_pc \in {"done", "raised"}) => reel_exc.type # "KeyError"

=============================================================================
